---------------------------- MODULE Spec2Model ----------------------------
(***************************************************************************)
(* Three SpiderFoot plug-ins: sfp_people_data_labs, sfp_turgen_dehashed    *)
(* and sfp_turgen_password_hash.  A plug-in instance is driven by the host *)
(* through handleEvent; the three instances share no state, so a behaviour *)
(* follows one instance, chosen in Init (variable plugin).                 *)
(*                                                                         *)
(* Each handleEvent is one action.  What the host and the remote API       *)
(* answer during the call (HTTP responses, checkForStop, random salts) are *)
(* the action's inputs.  trace records what the call did, in order:        *)
(* checkForStop calls with their answers, API queries, notified events.    *)
(***************************************************************************)
EXTENDS Integers, Sequences, FiniteSets, Bags, TLC

VARIABLES
    plugin,      \* "pdl" | "dh" | "ph": the plug-in instance being driven
    opts,        \* self.opts after setup()
    errorState,  \* self.errorState
    results,     \* self.results: the keys of the tempStorage dict
    data,        \* self.data (people_data_labs): field -> list of values
    produced,    \* self.produced (people_data_labs): the keys of the dict
    calls,       \* number of handleEvent calls made so far
    event,       \* the event of the most recent handleEvent call
    trace,       \* what the most recent handleEvent call did, in order
    raised,      \* the most recent call ended by an uncaught exception
    prev,        \* the fields, queried and sent as they were before that call
    queried,     \* every API query issued so far, as <<query, page>>
    sent,        \* every <<type, data>> notified so far, RAW_RIR_DATA aside
    hashed,      \* number of HASH events notified so far
    seen         \* the data of every event delivered so far

vars == <<plugin, opts, errorState, results, data, produced, calls, event,
          trace, raised, prev, queried, sent, hashed, seen>>

\* ---------------------------------------------------------------- bounds
\* The number of handleEvent calls a behaviour makes on the instance of
\* people_data_labs, dehashed and password_hash.
PDL_MaxCalls == 3
DH_MaxCalls == 2
PH_MaxCalls == 3

Min(a, b) == IF a < b THEN a ELSE b

\* The data of incoming events.  The names are interchangeable, so the host
\* introduces them in this order: a call delivers a name already delivered
\* or the first name not delivered yet.
ValueNames == <<"alice", "bob", "carol">>
Values == {ValueNames[i] : i \in 1..Min(Cardinality(seen) + 1, Len(ValueNames))}

\* ------------------------------------------------------- generic helpers
Range(s) == {s[i] : i \in 1..Len(s)}

RECURSIVE Flatten(_)
Flatten(ss) == IF ss = <<>> THEN <<>> ELSE Head(ss) \o Flatten(Tail(ss))

\* Python's None where a string is expected otherwise.
None == "<None>"

\* The entries of trace.
StopOp(ret) == [op |-> "checkForStop", ret |-> ret]
\* A query: ok is whether query() returned an answer (not None), got the
\* number of entries the answer held (Dehashed).
QueryOp(q, page, ok, got) ==
    [op |-> "query", qry |-> q, page |-> page, ok |-> ok, got |-> got]
NotifyOp(type, payload, src, n) ==
    [op |-> "notify", type |-> type, data |-> payload, src |-> src, n |-> n]

IsQuery(o) == o.op = "query"
IsNotify(o) == o.op = "notify"
IsStop(o) == o.op = "checkForStop"

NoEvent == [eventType |-> "", data |-> "", module |-> ""]

\* ============================================== sfp_people_data_labs ====
PDL_combinations_split ==
    << <<"phone">>, <<"profile">>, <<"company">>, <<"name">>, <<"email">> >>

PDL_combinations == << <<"phone">>, <<"profile">>, <<"company", "name">>, <<"email">> >>

PDL_eventMap ==
    [EMAILADDR |-> "email", HUMAN_NAME |-> "name", PHONE_NUMBER |-> "phone",
     SOCIAL_MEDIA |-> "profile", COMPANY_NAME |-> "company"]

PDL_watchedEvents ==
    {"EMAILADDR", "HUMAN_NAME", "PHONE_NUMBER", "SOCIAL_MEDIA", "COMPANY_NAME"}

PDL_Fields == {PDL_eventMap[t] : t \in DOMAIN PDL_eventMap}

\* The mappings table of createEvents: response field -> metas, in order.
PDL_mappings ==
    [names      |-> << [field |-> <<"name">>, event |-> "HUMAN_NAME", single |-> FALSE] >>,
     emails     |-> << [field |-> <<"address">>, event |-> "EMAILADDR", single |-> FALSE] >>,
     profiles   |-> << [field |-> <<"url">>, event |-> "SOCIAL_MEDIA", single |-> FALSE],
                       [field |-> <<"username">>, event |-> "USERNAME", single |-> FALSE] >>,
     experience |-> << [field |-> <<"company", "name">>, event |-> "COMPANY_NAME", single |-> FALSE] >>,
     locations  |-> << [field |-> <<"name">>, event |-> "PHYSICAL_ADDRESS", single |-> FALSE] >>,
     birth_date |-> << [field |-> <<>>, event |-> "DATE_HUMAN_DOB", single |-> TRUE] >>]

\* Parsed API answers.  data is the 'data' dict as its items in order; an
\* item is [key, kind, val] with kind "list" (val a list of dicts), "str"
\* (val a string) or "null".  repr is str() of the whole answer.
PDL_Rec1 ==
    [repr |-> "{'data': {'names': [alice], 'emails': [a@x], 'profiles': [u/alice], 'birth_date': '1990'}}",
     data |-> << [key |-> "names", kind |-> "list", val |-> << [name |-> "alice"] >>],
                 [key |-> "emails", kind |-> "list", val |-> << [address |-> "a@x"] >>],
                 [key |-> "profiles", kind |-> "list",
                  val |-> << [url |-> "u/alice", username |-> "alice"] >>],
                 [key |-> "birth_date", kind |-> "str", val |-> "1990"] >>]

PDL_Rec2 ==
    [repr |-> "{'data': {'names': [alice, bob], 'experience': [acme], 'skills': [tla], 'locations': [], 'birth_date': None}}",
     data |-> << [key |-> "names", kind |-> "list",
                  val |-> << [name |-> "alice"], [name |-> "bob"], [first |-> "al"] >>],
                 [key |-> "experience", kind |-> "list",
                  val |-> << [company |-> [name |-> "acme"]] >>],
                 [key |-> "skills", kind |-> "list", val |-> << [name |-> "tla"] >>],
                 [key |-> "locations", kind |-> "list", val |-> <<>>],
                 [key |-> "birth_date", kind |-> "null", val |-> None] >>]

\* json.loads, on the response bodies the model draws from.
PDL_JsonText1 == "{\"data\": {\"names\": [alice], ...}}"
PDL_JsonText2 == "{\"data\": {\"names\": [alice, bob], ...}}"
JsonParses(content) == content \in {PDL_JsonText1, PDL_JsonText2}
PDL_JsonLoads(content) == IF content = PDL_JsonText1 THEN PDL_Rec1 ELSE PDL_Rec2

\* What sf.fetchUrl may return for a People Data Labs request.
PDL_Responses ==
    { [code |-> "200", content |-> PDL_JsonText1],
      [code |-> "200", content |-> PDL_JsonText2],
      [code |-> "404", content |-> PDL_JsonText1],
      [code |-> "200", content |-> None],
      [code |-> "200", content |-> "<html>"] }

\* query(): the parsed answer, or none.
PDL_query(res) ==
    IF res.content = None \/ res.code # "200"
    THEN [none |-> TRUE, rec |-> PDL_Rec1]
    ELSE IF ~JsonParses(res.content)
    THEN [none |-> TRUE, rec |-> PDL_Rec1]
    ELSE [none |-> FALSE, rec |-> PDL_JsonLoads(res.content)]

PDL_isValidQuery(d, fields) == \A i \in 1..Len(fields) : d[fields[i]] # <<>>

\* itertools.product(*values): the rightmost list advances fastest.
RECURSIVE Product(_)
Product(lists) ==
    IF lists = <<>> THEN << <<>> >>
    ELSE LET rest == Product(Tail(lists))
             first == Head(lists)
         IN  Flatten([i \in 1..Len(first) |->
                        [j \in 1..Len(rest) |-> <<first[i]>> \o rest[j]]])

\* dict(zip(keys, v))
DictZip(keys, v) ==
    [k \in Range(keys) |-> v[CHOOSE i \in 1..Len(keys) : keys[i] = k]]

\* The query dicts of one combination (lines 187-194).
PDL_queryDicts(d, combination) ==
    LET vs == Product([i \in 1..Len(combination) |-> d[combination[i]]])
    IN  [j \in 1..Len(vs) |-> DictZip(combination, vs[j])]

\* query_list as handleEvent builds it (lines 183-196).
PDL_queryList(d, eventType) ==
    Flatten([c \in 1..Len(PDL_combinations) |->
        IF eventType \in Range(PDL_combinations[c])
           /\ PDL_isValidQuery(d, PDL_combinations[c])
        THEN PDL_queryDicts(d, PDL_combinations[c])
        ELSE <<>>])

\* info = item; for k in path: info = info.get(k)
RECURSIVE GetPath(_, _)
GetPath(info, path) ==
    IF path = <<>> THEN [none |-> FALSE, v |-> info]
    ELSE IF Head(path) \in DOMAIN info THEN GetPath(info[Head(path)], Tail(path))
    ELSE [none |-> TRUE, v |-> None]

\* The sendEvent calls of createEvents for one meta of one field.
PDL_metaCalls(item, meta) ==
    IF item.kind = "null" THEN <<>>
    ELSE IF meta.single THEN << <<meta.event, item.val>> >>
    ELSE Flatten([i \in 1..Len(item.val) |->
            LET g == GetPath(item.val[i], meta.field)
            IN  IF g.none THEN <<>> ELSE << <<meta.event, g.v>> >>])

\* createEvents(): the sendEvent calls <<event_type, data>> in order.
PDL_createEvents(rec) ==
    Flatten([f \in 1..Len(rec.data) |->
        IF rec.data[f].key \notin DOMAIN PDL_mappings THEN <<>>
        ELSE LET metas == PDL_mappings[rec.data[f].key]
             IN  Flatten([m \in 1..Len(metas) |->
                            PDL_metaCalls(rec.data[f], metas[m])])])

PDL_infoKey(event_type, payload) == event_type \o "-" \o payload

\* sendEvent() over a list of calls: st is [produced, trace].
RECURSIVE PDL_sendEvents(_, _, _)
PDL_sendEvents(cs, st, src) ==
    IF cs = <<>> THEN st
    ELSE LET key == PDL_infoKey(Head(cs)[1], Head(cs)[2])
         IN  IF key \in st.produced
             THEN PDL_sendEvents(Tail(cs), st, src)
             ELSE PDL_sendEvents(Tail(cs),
                    [produced |-> st.produced \cup {key},
                     trace |-> Append(st.trace,
                                 NotifyOp(Head(cs)[1], Head(cs)[2], src, 1))],
                    src)

\* The loop over query_list (lines 198-208), from its i-th query on.
\* resp[i] is what fetchUrl returns for the i-th query; the stopAt-th call
\* of checkForStop is the first to return True (0: none does).
\* st is [produced, trace, raised].
RECURSIVE PDL_queryLoop(_, _, _, _, _, _)
PDL_queryLoop(qs, i, st, resp, stopAt, src) ==
    IF i > Len(qs) THEN st
    ELSE IF stopAt = i
    THEN [st EXCEPT !.trace = Append(@, StopOp(TRUE))]
    ELSE LET rec == PDL_query(resp[i])
             asked == [st EXCEPT !.trace =
                          @ \o <<StopOp(FALSE), QueryOp(qs[i], 0, ~rec.none, 0)>>]
         IN  IF rec.none
             THEN \* createEvents: rec['data'] on None raises TypeError
                  [asked EXCEPT !.raised = TRUE]
             ELSE LET made == PDL_sendEvents(PDL_createEvents(rec.rec),
                                  [produced |-> asked.produced, trace |-> asked.trace],
                                  src)
                      told == [produced |-> made.produced,
                               trace |-> Append(made.trace,
                                   NotifyOp("RAW_RIR_DATA", rec.rec.repr, src, 1)),
                               raised |-> FALSE]
                  IN  PDL_queryLoop(qs, i + 1, told, resp, stopAt, src)

\* The module's fields, as handleEvent reads and writes them.
Self == [errorState |-> errorState, results |-> results, data |-> data,
         produced |-> produced]

Quiet(self) == self @@ [trace |-> <<>>, raised |-> FALSE]

\* self.opts['api_key'] == ""
PDL_noApiKey(o) == o.api_key = ""

PDL_alreadyChecked_perField(self, ev) ==
    ev.data \in Range(self.data[PDL_eventMap[ev.eventType]])

\* eventData in self.results
PDL_alreadyChecked(self, ev) == ev.data \in self.results

\* handleEvent() of sfp_people_data_labs: the fields after the call, with
\* the call's trace.  resp and stopAt are read only when queries are made.
PDL_handle(self, ev, resp, stopAt) ==
    LET eventType == PDL_eventMap[ev.eventType] IN
    IF self.errorState THEN Quiet(self)
    ELSE IF PDL_noApiKey(opts) THEN Quiet([self EXCEPT !.errorState = TRUE])
    ELSE IF PDL_alreadyChecked(self, ev) THEN Quiet(self)
    ELSE LET d == [self.data EXCEPT ![eventType] = Append(@, ev.data)]
             run == PDL_queryLoop(PDL_queryList(d, eventType), 1,
                        [produced |-> self.produced, trace |-> <<>>, raised |-> FALSE],
                        resp, stopAt, ev)
         IN  [errorState |-> FALSE,
              results |-> self.results \cup {ev.data},
              data |-> d,
              produced |-> run.produced,
              trace |-> run.trace,
              raised |-> run.raised]

\* The number of queries the call is about to build: the inputs to draw.
PDL_pending(self, ev) ==
    IF self.errorState \/ PDL_noApiKey(opts) \/ PDL_alreadyChecked(self, ev) THEN 0
    ELSE Len(PDL_queryList(
            [self.data EXCEPT ![PDL_eventMap[ev.eventType]] = Append(@, ev.data)],
            PDL_eventMap[ev.eventType]))

\* ------------------------------------------------------ bookkeeping ----
\* The API queries of a trace, as <<query, page>>, and the events it notified
\* other than RAW_RIR_DATA, as <<type, data>>.
QueriesOf(tr) == {<<tr[i].qry, tr[i].page>> : i \in {j \in 1..Len(tr) : IsQuery(tr[j])}}

NotifiedOf(tr) ==
    {<<tr[i].type, tr[i].data>> :
        i \in {j \in 1..Len(tr) : IsNotify(tr[j]) /\ tr[j].type # "RAW_RIR_DATA"}}

\* The host delivers ev; out is what the handler made of it.
Deliver(ev, out) ==
    /\ calls' = calls + 1
    /\ event' = ev
    /\ prev' = Self @@ [queried |-> queried, sent |-> sent, seen |-> seen]
    /\ seen' = seen \cup {ev.data}
    /\ errorState' = out.errorState
    /\ results' = out.results
    /\ data' = out.data
    /\ produced' = out.produced
    /\ trace' = out.trace
    /\ raised' = out.raised
    /\ queried' = queried \cup QueriesOf(out.trace)
    /\ sent' = sent \cup NotifiedOf(out.trace)
    /\ hashed' = hashed + Cardinality({i \in 1..Len(out.trace) :
                                IsNotify(out.trace[i]) /\ out.trace[i].type = "HASH"})
    /\ UNCHANGED <<plugin, opts>>

PDL_fails(res) == PDL_query(res).none

\* The fetchUrl results a call consumes when it can ask up to m queries: it
\* asks no more after the first result that query() turns into None.
RECURSIVE PDL_answers(_)
PDL_answers(m) ==
    IF m = 0 THEN {<<>>}
    ELSE {<<r>> : r \in {x \in PDL_Responses : PDL_fails(x)}}
         \cup {<<r>> \o t : r \in {x \in PDL_Responses : ~PDL_fails(x)},
                            t \in PDL_answers(m - 1)}

PDL_handleEvent ==
    /\ plugin = "pdl"
    /\ calls < PDL_MaxCalls
    /\ \E t \in PDL_watchedEvents, v \in Values :
         LET ev == [eventType |-> t, data |-> v, module |-> "host"]
             n == PDL_pending(Self, ev)
         IN  \E stopAt \in 0..n :
               \E resp \in PDL_answers(IF stopAt = 0 THEN n ELSE stopAt - 1) :
                  \E out \in {PDL_handle(Self, ev, resp, stopAt)} : Deliver(ev, out)


\* =============================================== sfp_turgen_dehashed ====
DH_eventMap ==
    [email |-> "EMAILADDR_COMPROMISED", username |-> "USERNAME",
     password |-> "PASSWORD_COMPROMISED", hashed_password |-> "HASH_COMPROMISED",
     name |-> "HUMAN_NAME", address |-> "PHYSICAL_ADDRESS",
     ip_address |-> "IP_ADDRESS", phone |-> "PHONE_NUMBER"]

DH_watchedEvents == {"EMAILADDR", "PHONE_NUMBER", "USERNAME"}

PageSize_typo == 5000 \div 10

\* "Dehashed returns 5000 results for each query"
PageSize == 5000

\* The largest max_pages option the model configures.
MaxPagesOpt == 3

\* "_COMPROMISED" in e, on the types of DH_eventMap.
HasCompromised(e) ==
    e \in {"EMAILADDR_COMPROMISED", "PASSWORD_COMPROMISED", "HASH_COMPROMISED"}

\* str.strip(), on the strings the model draws from.
Strip(v) == IF v \in {" ", "  "} THEN "" ELSE v

\* int(), on the strings the model draws from: ok is FALSE for ValueError.
ParseInt(str) ==
    LET hits == {i \in (0 - 1)..(MaxPagesOpt + 1) : ToString(i) = str}
    IN  IF hits = {} THEN [ok |-> FALSE, v |-> 0]
        ELSE [ok |-> TRUE, v |-> CHOOSE i \in hits : TRUE]

\* Entries of the breach API: the dict's items in order, and its str().
DH_Entry1 ==
    [repr |-> "{'id': '7', 'email': 'a@x', 'username': 'bob', 'password': 'pw', 'hashed_password': '', 'name': 'bob', 'phone': None, 'obtained_from': 'DB1'}",
     items |-> << <<"id", "7">>, <<"email", "a@x">>, <<"username", "bob">>,
                  <<"password", "pw">>, <<"hashed_password", "">>,
                  <<"name", "bob">>, <<"phone", None>>,
                  <<"obtained_from", "DB1">> >>]

DH_Entry2 ==
    [repr |-> "{'id': '8', 'email': 'a@x', 'username': '  ', 'address': 'pw', 'ip_address': '1.2.3.4', 'phone': '7', 'obtained_from': 'DB2'}",
     items |-> << <<"id", "8">>, <<"email", "a@x">>, <<"username", "  ">>,
                  <<"address", "pw">>, <<"ip_address", "1.2.3.4">>,
                  <<"phone", "7">>, <<"obtained_from", "DB2">> >>]

DH_Entry3 ==
    [repr |-> "{'id': '9', 'email': 'c@x', 'hashed_password': 'h9', 'obtained_from': ' '}",
     items |-> << <<"id", "9">>, <<"email", "c@x">>, <<"hashed_password", "h9">>,
                  <<"obtained_from", " ">> >>]

\* A list of entries is kept as runs: n consecutive copies of entry e.
Run(e, n) == [e |-> e, n |-> n]

RECURSIVE RunsLen(_)
RunsLen(runs) == IF runs = <<>> THEN 0 ELSE Head(runs).n + RunsLen(Tail(runs))

\* json.loads, on the response bodies the model draws from.  entries is the
\* value of the 'entries' key; has is FALSE when the answer has no such key.
DH_JsonFull == "{\"entries\": [5000 x entry 1]}"
DH_JsonShort == "{\"entries\": [entry 1, entry 2, entry 3]}"
DH_JsonEmpty == "{\"entries\": []}"
DH_JsonMessage == "{\"message\": \"rate limit\", \"success\": false}"

DH_JsonParses(content) ==
    content \in {DH_JsonFull, DH_JsonShort, DH_JsonEmpty, DH_JsonMessage}

DH_JsonLoads(content) ==
    CASE content = DH_JsonFull -> [has |-> TRUE, entries |-> <<Run(DH_Entry1, PageSize)>>]
      [] content = DH_JsonShort ->
            [has |-> TRUE,
             entries |-> <<Run(DH_Entry1, 1), Run(DH_Entry2, 1), Run(DH_Entry3, 1)>>]
      [] content = DH_JsonEmpty -> [has |-> TRUE, entries |-> <<>>]
      [] OTHER -> [has |-> FALSE, entries |-> <<>>]

\* What sf.fetchUrl may return for a Dehashed request.
DH_Responses ==
    { [code |-> "200", content |-> DH_JsonFull],
      [code |-> "200", content |-> DH_JsonShort],
      [code |-> "200", content |-> DH_JsonEmpty],
      [code |-> "400", content |-> DH_JsonMessage],
      [code |-> "401", content |-> DH_JsonMessage],
      [code |-> "500", content |-> None],
      [code |-> "200", content |-> "<html>"] }

\* query(): the parsed answer, or none.
DH_query(res) ==
    IF res.code = "401" THEN [none |-> TRUE, json |-> DH_JsonLoads(DH_JsonEmpty)]
    ELSE IF res.content = None THEN [none |-> TRUE, json |-> DH_JsonLoads(DH_JsonEmpty)]
    ELSE IF ~DH_JsonParses(res.content)
    THEN [none |-> TRUE, json |-> DH_JsonLoads(DH_JsonEmpty)]
    ELSE [none |-> FALSE, json |-> DH_JsonLoads(res.content)]

\* len(entries) >= 5000 * currentPage
DH_morePages(total, currentPage) == total >= PageSize * currentPage

\* The pagination loop (lines 157-174) from page currentPage on.  resp[k] is
\* what fetchUrl returns for page k.  st is [entries, trace, raised].
RECURSIVE DH_pages(_, _, _, _, _)
DH_pages(qry, currentPage, st, resp, max_pages) ==
    IF ~(currentPage <= max_pages) THEN st
    ELSE LET jsonData_temp == DH_query(resp[currentPage])
             asked == [st EXCEPT !.trace = Append(@,
                          QueryOp(qry, currentPage, ~jsonData_temp.none,
                                  RunsLen(jsonData_temp.json.entries)))]
         IN  IF jsonData_temp.none THEN asked
             ELSE IF ~jsonData_temp.json.has
             THEN \* entries.extend(None) raises TypeError
                  [asked EXCEPT !.raised = TRUE]
             ELSE LET got == [asked EXCEPT !.entries = @ \o jsonData_temp.json.entries]
                  IN  IF DH_morePages(RunsLen(got.entries), currentPage)
                      THEN DH_pages(qry, currentPage + 1, got, resp, max_pages)
                      ELSE got

\* entry.get(key)
EntryGet(entry, key) ==
    LET hits == {i \in 1..Len(entry.items) : entry.items[i][1] = key}
    IN  IF hits = {} THEN None ELSE entry.items[CHOOSE i \in hits : TRUE][2]

DH_breachSource(entry) ==
    LET from == EntryGet(entry, "obtained_from")
    IN  IF ~(from = None \/ Strip(from) = "") THEN from ELSE ""

\* The loop over entry.items() (lines 192-202) from the i-th item on.
\* st is [produced, trace]; produced is the local list of values seen.
RECURSIVE DH_items(_, _, _, _)
DH_items(entry, i, st, src) ==
    IF i > Len(entry.items) THEN st
    ELSE LET key == entry.items[i][1]
             value == entry.items[i][2]
         IN  IF value = None \/ Strip(value) = "" \/ value \in Range(st.produced)
             THEN DH_items(entry, i + 1, st, src)
             ELSE LET noted == [st EXCEPT !.produced = Append(@, value)]
                  IN  IF key \notin DOMAIN DH_eventMap
                      THEN DH_items(entry, i + 1, noted, src)
                      ELSE LET e == DH_eventMap[key]
                               payload == value \o (IF HasCompromised(e)
                                                    THEN "[" \o DH_breachSource(entry) \o "]"
                                                    ELSE "")
                           IN  DH_items(entry, i + 1,
                                   [noted EXCEPT !.trace = Append(@, NotifyOp(e, payload, src, 1))],
                                   src)

\* One pass of the loop body for an entry (lines 183-207), checkForStop
\* having returned False.
DH_entry(entry, st, src) ==
    LET made == DH_items(entry, 1,
                    [st EXCEPT !.trace = Append(@, StopOp(FALSE))], src)
    IN  [made EXCEPT !.trace = Append(@, NotifyOp("RAW_RIR_DATA", entry.repr, src, 1))]

\* times further passes for an entry that was just processed: every value
\* of it is blank or in produced by now, so each pass is checkForStop
\* (False) and the RAW_RIR_DATA event.
AgainOp(entry, times, src) ==
    [op |-> "again", times |-> times,
     body |-> <<StopOp(FALSE), NotifyOp("RAW_RIR_DATA", entry.repr, src, 1)>>]

RECURSIVE DH_entries_ignoreStop(_, _, _, _, _)
DH_entries_ignoreStop(runs, k, st, stopAt, src) ==
    IF runs = <<>> THEN st
    ELSE LET r == Head(runs)
             checked == IF stopAt = k
                        THEN [st EXCEPT !.trace = Append(@, StopOp(TRUE))]
                        ELSE st
             first == DH_entry(r.e, checked, src)
             rest == IF r.n > 1
                     THEN [first EXCEPT !.trace = Append(@, AgainOp(r.e, r.n - 1, src))]
                     ELSE first
         IN  DH_entries_ignoreStop(Tail(runs), k + r.n, rest, stopAt, src)

\* The loop over entries (lines 181-207) from the first run of runs on; k
\* is the ordinal of the next checkForStop call, the stopAt-th returns True.
RECURSIVE DH_entries(_, _, _, _, _)
DH_entries(runs, k, st, stopAt, src) ==
    IF runs = <<>> THEN st
    ELSE IF stopAt = k THEN [st EXCEPT !.trace = Append(@, StopOp(TRUE))]
    ELSE LET r == Head(runs)
             first == DH_entry(r.e, st, src)
             more == IF stopAt > k /\ stopAt < k + r.n THEN stopAt - k - 1 ELSE r.n - 1
             rest == IF more > 0
                     THEN [first EXCEPT !.trace = Append(@, AgainOp(r.e, more, src))]
                     ELSE first
         IN  IF stopAt > k /\ stopAt < k + r.n
             THEN [rest EXCEPT !.trace = Append(@, StopOp(TRUE))]
             ELSE DH_entries(Tail(runs), k + r.n, rest, stopAt, src)

DH_noCredentials_keyOnly(o) == o.api_key = ""

\* self.opts['api_key'] == "" or self.opts['email'] == ""
DH_noCredentials(o) == o.api_key = "" \/ o.email = ""

\* eventData in self.results
DH_alreadyMapped(self, ev) == ev.data \in self.results

\* handleEvent() of sfp_turgen_dehashed.
DH_handle(self, ev, resp, stopAt) ==
    IF self.errorState THEN Quiet(self)
    ELSE IF DH_noCredentials(opts) THEN Quiet([self EXCEPT !.errorState = TRUE])
    ELSE IF DH_alreadyMapped(self, ev) THEN Quiet(self)
    ELSE LET marked == [self EXCEPT !.results = @ \cup {ev.data}]
             max_pages == ParseInt(opts.max_pages)
         IN  IF ~max_pages.ok
             THEN \* int('') raises ValueError
                  marked @@ [trace |-> <<>>, raised |-> TRUE]
             ELSE LET paged == DH_pages(ev.data, 1,
                                  [entries |-> <<>>, trace |-> <<>>, raised |-> FALSE],
                                  resp, max_pages.v)
                  IN  IF paged.raised \/ paged.entries = <<>>
                      THEN marked @@ [trace |-> paged.trace, raised |-> paged.raised]
                      ELSE marked @@ [trace |-> DH_entries(paged.entries, 1,
                                                 [produced |-> <<>>, trace |-> paged.trace],
                                                 stopAt, ev).trace,
                                    raised |-> FALSE]

\* A page that ends the pagination loop when all pages before it were full.
DH_ends(res) ==
    LET j == DH_query(res)
    IN  j.none \/ ~j.json.has \/ RunsLen(j.json.entries) < PageSize

\* The fetchUrl results a call consumes when it can ask for up to m pages:
\* it asks for no more after the first page that ends the loop.
RECURSIVE DH_answers(_)
DH_answers(m) ==
    IF m = 0 THEN {<<>>}
    ELSE {<<r>> : r \in {x \in DH_Responses : DH_ends(x)}}
         \cup {<<r>> \o t : r \in {x \in DH_Responses : ~DH_ends(x)},
                            t \in DH_answers(m - 1)}

\* The pages the call is about to ask for at most: the inputs to draw.
DH_pending(self, ev) ==
    IF self.errorState \/ DH_noCredentials(opts) \/ DH_alreadyMapped(self, ev) THEN 0
    ELSE LET max_pages == ParseInt(opts.max_pages)
         IN  IF max_pages.ok /\ max_pages.v > 0 THEN max_pages.v ELSE 0

\* The checkForStop calls that may be the first to return True (0: none),
\* among those the call can make: one per entry collected.
DH_stops == {0, 1, 2, PageSize + 1}

DH_checks(self, ev, resp) ==
    IF DH_pending(self, ev) = 0 THEN 0
    ELSE LET paged == DH_pages(ev.data, 1,
                         [entries |-> <<>>, trace |-> <<>>, raised |-> FALSE],
                         resp, DH_pending(self, ev))
         IN  IF paged.raised THEN 0 ELSE RunsLen(paged.entries)

DH_handleEvent ==
    /\ plugin = "dh"
    /\ calls < DH_MaxCalls
    /\ \E t \in DH_watchedEvents, v \in Values :
         LET ev == [eventType |-> t, data |-> v, module |-> "host"]
         IN  \E resp \in DH_answers(DH_pending(Self, ev)) :
               \E stopAt \in {k \in DH_stops : k <= DH_checks(Self, ev, resp)} :
                  \E out \in {DH_handle(Self, ev, resp, stopAt)} : Deliver(ev, out)

DH_setup(api_key, email, max_pages) ==
    /\ plugin = "dh"
    /\ opts = [api_key |-> api_key, email |-> email, max_pages |-> max_pages]
    /\ errorState = FALSE
    /\ results = {}
    /\ data = <<>>
    /\ produced = {}


\* ========================================== sfp_turgen_password_hash ====
\* The digests, as Python values: bytes or str, with their text.  The text
\* of a digest stands for the algorithm's output on the data (and salt).
PH_Salts == {"saltA", "saltB"}

PH_bcrypt(d, salt) == [type |-> "bytes", text |-> "$2b$12$" \o salt \o "$" \o d]
PH_sha1(d) == [type |-> "str", text |-> "sha1$" \o d]
PH_sha3_224(d) == [type |-> "str", text |-> "sha3_224$" \o d]
PH_md5(d) == [type |-> "str", text |-> "md5$" \o d]
PH_pbkdf2_sha256(d, salt) ==
    [type |-> "str", text |-> "$pbkdf2-sha256$29000$" \o salt \o "$" \o d]

\* str(): the text of a str, the literal b'...' of a bytes object.
PyStr(v) == IF v.type = "bytes" THEN "b'" \o v.text \o "'" ELSE v.text

\* The hashes dict (lines 64-74), as its items in insertion order.
PH_hashes(d, salt1, salt2) ==
    << <<"bcrypt", PH_bcrypt(d, salt1)>>,
       <<"sha1", PH_sha1(d)>>,
       <<"sha3", PH_sha3_224(d)>>,
       <<"md5", PH_md5(d)>>,
       <<"pbkdf2", PH_pbkdf2_sha256(d, salt2)>> >>

\* handleEvent() of sfp_turgen_password_hash: salt1 is bcrypt.gensalt(),
\* salt2 the salt passlib draws.
PH_handle(self, ev, salt1, salt2) ==
    LET hashes == PH_hashes(ev.data, salt1, salt2)
    IN  self @@ [trace |-> [i \in 1..Len(hashes) |->
                              NotifyOp("HASH",
                                       "[" \o hashes[i][1] \o "] " \o PyStr(hashes[i][2]),
                                       ev, 1)],
                 raised |-> FALSE]

PH_handleEvent ==
    /\ plugin = "ph"
    /\ calls < PH_MaxCalls
    /\ \E v \in Values, salt1 \in PH_Salts, salt2 \in PH_Salts :
         LET ev == [eventType |-> "PASSWORD_COMPROMISED", data |-> v, module |-> "host"]
         IN  \E out \in {PH_handle(Self, ev, salt1, salt2)} : Deliver(ev, out)

PH_setup ==
    /\ plugin = "ph"
    /\ opts = [api_key |-> "", email |-> "", max_pages |-> ""]
    /\ errorState = FALSE
    /\ results = {}
    /\ data = <<>>
    /\ produced = {}

\* setup(): the state a configured instance starts from.
PDL_setup(api_key) ==
    /\ plugin = "pdl"
    /\ opts = [api_key |-> api_key, email |-> "", max_pages |-> ""]
    /\ errorState = FALSE
    /\ results = {}
    /\ data = [f \in PDL_Fields |-> <<>>]
    /\ produced = {}

Fresh ==
    /\ calls = 0
    /\ event = NoEvent
    /\ trace = <<>>
    /\ raised = FALSE
    /\ queried = {}
    /\ sent = {}
    /\ hashed = 0
    /\ seen = {}
    /\ prev = Self @@ [queried |-> {}, sent |-> {}, seen |-> {}]

Init ==
    /\ \/ \E k \in {"", "key"} : PDL_setup(k)
       \/ \E k \in {"", "key"}, m \in {"", "me@x"},
             p \in {"", "-1", "0", "1", ToString(MaxPagesOpt)} :
               DH_setup(k, m, p)
       \/ PH_setup
    /\ Fresh

Next == PDL_handleEvent \/ DH_handleEvent \/ PH_handleEvent
Spec == Init /\ [][Next]_vars

\* ================================================================ claims
\* What the most recent call did.
Acts(o) == o.op \in {"query", "notify", "again"}
Silent == \A i \in 1..Len(trace) : ~Acts(trace[i])
Issued == SelectSeq(trace, IsQuery)
StopTrue(o) == IsStop(o) /\ o.ret
IsRaw(o) == IsNotify(o) /\ o.type = "RAW_RIR_DATA"
IsDerived(o) == IsNotify(o) /\ o.type # "RAW_RIR_DATA"
FieldsKept ==
    results = prev.results /\ data = prev.data /\ produced = prev.produced

CredentialsMissing ==
    \/ plugin = "pdl" /\ opts.api_key = ""
    \/ plugin = "dh" /\ (opts.api_key = "" \/ opts.email = "")

SeenBefore == event.data \in prev.seen

\* C1: with missing credentials (people_data_labs: api_key empty; dehashed:
\* api_key or email empty) a call sets errorState, queries nothing and
\* notifies nothing; a call that starts in errorState queries nothing,
\* notifies nothing, leaves results, data and produced as they were, and
\* leaves errorState True.
C1_MissingCredentials ==
    (plugin \in {"pdl", "dh"} /\ calls >= 1) =>
        /\ CredentialsMissing => (errorState /\ Silent)
        /\ prev.errorState => (errorState /\ Silent /\ FieldsKept /\ ~raised)

C1_Witness ==
    /\ plugin = "dh" /\ opts.api_key = "key" /\ opts.email = ""
    /\ calls >= 2 /\ prev.errorState /\ errorState
    /\ event.data \notin prev.seen

\* C2: when query() returns None the call issues no further query and
\* errorState is True afterwards (people_data_labs and dehashed).
C2_FailureFlagsError ==
    (plugin \in {"pdl", "dh"} /\ calls >= 1) =>
        \A i \in 1..Len(trace) :
            (IsQuery(trace[i]) /\ ~trace[i].ok) =>
                /\ errorState
                /\ \A j \in (i + 1)..Len(trace) : ~IsQuery(trace[j])

\* C3: with credentials set and errorState False, a call whose data equals
\* the data of an earlier event, of whatever type, queries nothing, notifies
\* nothing and leaves results, data and produced unchanged; a call whose
\* data is new adds exactly that data to results.
C3_SeenInputsSkipped ==
    (plugin \in {"pdl", "dh"} /\ calls >= 1 /\ ~CredentialsMissing
        /\ ~prev.errorState) =>
        IF SeenBefore
        THEN Silent /\ FieldsKept /\ ~errorState
        ELSE results = prev.results \cup {event.data}

C3_Witness ==
    /\ plugin = "pdl" /\ calls >= 2 /\ ~CredentialsMissing
    /\ SeenBefore
    /\ \E g \in PDL_Fields :
          g # PDL_eventMap[event.eventType] /\ event.data \in Range(prev.data[g])
    /\ prev.queried # {}
    /\ Silent /\ FieldsKept

\* C4: every call of password_hash notifies exactly five events, all of type
\* HASH with the incoming event as source, one per algorithm in the order
\* bcrypt, sha1, sha3, md5, pbkdf2, each with payload "[<algo>] <digest>";
\* n calls make 5n HASH events.
C4_Algorithms == <<"bcrypt", "sha1", "sha3", "md5", "pbkdf2">>

C4_FiveHashEvents ==
    (plugin = "ph" /\ calls >= 1) =>
        /\ Len(trace) = 5
        /\ \A i \in 1..Len(trace) :
              IsNotify(trace[i]) /\ trace[i].type = "HASH" /\ trace[i].src = event
        /\ \E salt1 \in PH_Salts, salt2 \in PH_Salts :
              \A i \in 1..5 :
                 trace[i].data = "[" \o C4_Algorithms[i] \o "] "
                                 \o PH_hashes(event.data, salt1, salt2)[i][2].text
        /\ hashed = 5 * calls

\* C4 without the payload's text: five HASH events per call, in the order
\* of the algorithms, 5n after n calls.
C4_FiveHashEventsAnyText ==
    (plugin = "ph" /\ calls >= 1) =>
        /\ Len(trace) = 5
        /\ \A i \in 1..Len(trace) :
              IsNotify(trace[i]) /\ trace[i].type = "HASH" /\ trace[i].src = event
        /\ \E salt1 \in PH_Salts, salt2 \in PH_Salts :
              \A i \in 1..5 :
                 trace[i].data = "[" \o C4_Algorithms[i] \o "] "
                                 \o PyStr(PH_hashes(event.data, salt1, salt2)[i][2])
        /\ hashed = 5 * calls

\* C5: for a new event of field f the queries issued are exactly: for each
\* combination among [phone], [profile], [company, name], [email] that
\* contains f and whose fields all have an accumulated value (the new value
\* appended), every element of the product of the fields' accumulated
\* values, as a dict keyed by the combination's fields.
C5_Combinations ==
    {<<"phone">>, <<"profile">>, <<"company", "name">>, <<"email">>}

C5_NewEvent ==
    /\ plugin = "pdl" /\ calls >= 1
    /\ ~prev.errorState /\ opts.api_key # ""
    /\ event.data \notin prev.results

C5_Field == PDL_eventMap[event.eventType]

C5_Accumulated == [prev.data EXCEPT ![C5_Field] = Append(@, event.data)]

C5_Valid(c) ==
    C5_Field \in Range(c) /\ \A g \in Range(c) : C5_Accumulated[g] # <<>>

C5_Expected ==
    UNION {IF C5_Valid(c)
           THEN {q \in [Range(c) -> UNION {Range(C5_Accumulated[g]) : g \in Range(c)}] :
                    \A g \in Range(c) : q[g] \in Range(C5_Accumulated[g])}
           ELSE {} : c \in C5_Combinations}

C5_IssuedSet == {Issued[i].qry : i \in 1..Len(Issued)}

C5_Key(q) ==
    LET c == CHOOSE c \in C5_Combinations : DOMAIN q = Range(c)
    IN  [i \in 1..Len(c) |->
            CHOOSE n \in 1..Len(C5_Accumulated[c[i]]) : C5_Accumulated[c[i]][n] = q[c[i]]]

LexLess(a, b) ==
    \E i \in 1..Len(a) : a[i] < b[i] /\ \A j \in 1..(i - 1) : a[j] = b[j]

C6_Entries == {DH_Entry1, DH_Entry2, DH_Entry3}

C6_Processed(e) == \E i \in 1..Len(trace) : IsRaw(trace[i]) /\ trace[i].data = e.repr

C6_KnownKeysMapped ==
    plugin = "dh" =>
        \A e \in C6_Entries : C6_Processed(e) =>
            \A k \in 1..Len(e.items) :
                LET key == e.items[k][1]
                    value == e.items[k][2]
                IN  (key \in DOMAIN DH_eventMap /\ value # None /\ Strip(value) # "") =>
                        \E i \in 1..Len(trace) :
                            /\ IsNotify(trace[i])
                            /\ trace[i].type = DH_eventMap[key]
                            /\ trace[i].data =
                                 IF HasCompromised(DH_eventMap[key])
                                 THEN value \o "[" \o DH_breachSource(e) \o "]"
                                 ELSE value

\* C7: the pages of a call are requested in the order 1, 2, 3, ..., none
\* twice; page k+1 only if page k returned data and at least 5000*k entries
\* were collected by then; never more than max_pages pages (none when
\* max_pages < 1); no page after the first failed or short page.
RECURSIVE Collected(_, _)
Collected(qs, k) == IF k = 0 THEN 0 ELSE qs[k].got + Collected(qs, k - 1)

C7_Limit ==
    LET m == ParseInt(opts.max_pages) IN IF m.ok /\ m.v >= 1 THEN m.v ELSE 0

C7_Pagination ==
    plugin = "dh" =>
        /\ \A k \in 1..Len(Issued) : Issued[k].page = k /\ Issued[k].qry = event.data
        /\ \A k \in 1..(Len(Issued) - 1) :
              Issued[k].ok /\ Collected(Issued, k) >= 5000 * k
        /\ Len(Issued) <= C7_Limit
        /\ \A k \in 1..Len(Issued) :
              (~Issued[k].ok \/ Collected(Issued, k) < 5000 * k) => k = Len(Issued)

C7_Witness ==
    /\ plugin = "dh" /\ opts.max_pages = "3"
    /\ Len(Issued) = 2
    /\ Issued[1].got = 5000
    /\ Issued[2].ok /\ Issued[2].got \in 1..4999

\* C8: no two API queries of people_data_labs, over all calls on the
\* instance, have the same set of field/value pairs.
C8_NoRepeatedQuery ==
    plugin = "pdl" =>
        /\ \A i \in 1..Len(Issued) : <<Issued[i].qry, 0>> \notin prev.queried
        /\ \A i, j \in 1..Len(Issued) : i < j => Issued[i].qry # Issued[j].qry

C10_AtMostOnce ==
    /\ \A i \in 1..Len(trace) :
          IsDerived(trace[i]) => <<trace[i].type, trace[i].data>> \notin prev.sent
    /\ \A i, j \in 1..Len(trace) :
          (i < j /\ IsDerived(trace[i]) /\ IsDerived(trace[j])) =>
              <<trace[i].type, trace[i].data>> # <<trace[j].type, trace[j].data>>

C10_ProducedIsNotified == produced = {PDL_infoKey(p[1], p[2]) : p \in sent}

C10_RawPerQuery ==
    \A i \in 1..Len(trace) : IsQuery(trace[i]) =>
        \E j \in (i + 1)..Len(trace) :
            /\ IsRaw(trace[j])
            /\ \A m \in (i + 1)..(j - 1) : IsDerived(trace[m])
            /\ \A m \in (j + 1)..Len(trace) : ~IsRaw(trace[m]) \/ \E n \in (j + 1)..m : IsQuery(trace[n])

C10_NoDuplicateEvents ==
    plugin = "pdl" => (C10_AtMostOnce /\ C10_ProducedIsNotified /\ C10_RawPerQuery)

\* C10 without its last sentence: the pairs sent through sendEvent.
C10_NoDuplicateDerived ==
    plugin = "pdl" => (C10_AtMostOnce /\ C10_ProducedIsNotified)
===========================================================================
